---- MODULE Spec2Model ----
(***************************************************************************)
(* Model of src/src/rotation.py (class Rotation and its sequence           *)
(* simplifier plus_rotation_simplified).                                   *)
(*                                                                         *)
(* Number representation.  The rotations studied here are axis-aligned     *)
(* with components that are multiples of a quarter turn, so a component    *)
(* is stored as an integer count of quarter turns: the float 0.25 is 1,    *)
(* 0.5 is 2, 1.0 is 4.  All of these floats are exact in binary, so the    *)
(* integer arithmetic below is the arithmetic the interpreter performs.    *)
(***************************************************************************)
EXTENDS Integers, Sequences, FiniteSets, TLC

VARIABLES prev_rotations, call, rawNet, aliased

vars == <<prev_rotations, call, rawNet, aliased>>

(***************************************************************************)
(* Bounds                                                                  *)
(***************************************************************************)
\* largest raw component, in quarter turns, of a rotation fed to the simplifier
MaxK == 3
\* number of basis axes (x, y, z in this order) the fed rotations turn about
NumAxes == 2
\* longest list kept by the caller
MaxLen == 3
\* most elements before the last LookBack of a list given to a single call
MaxPrefix == 1
\* longest list kept by the caller when only raw quarter turns are fed
MaxLenQ == 5
\* largest raw component, in quarter turns, of the operands of ==, hash,
\* __canonical and then
MaxTurn == 8
\* largest multiple of 0.25 around which smooth_near_quarter_turn is called
MaxMultiple == 4
\* largest distance, in units of 1e-7 turn, of its argument from a multiple of
\* 0.25 or from a point halfway between two multiples
MaxOffset == 12

(***************************************************************************)
(* Program constants (in quarter turns)                                    *)
(***************************************************************************)
\* the literal 0.25 of plus_rotation_simplified
QuarterTurn == 1
\* the literal 0.5 of __canonical
HalfTurn == 2
\* the modulus 1 of __canonical
FullTurn == 4
\* how far back plus_rotation_simplified reads: prev_rotations[-1] and [-2]
LookBack == 2

Abs(n) == IF n < 0 THEN -n ELSE n

\* Rotation.__init__
Rotation(x, y, z) == [x |-> x, y |-> y, z |-> z]

\* the default-constructed Rotation()
NoRotation == Rotation(0, 0, 0)

\* rotations about one of the first n basis axes by -k..k quarter turns
\* (0 quarter turns: no rotation)
AxisAligned(k, n) ==
    {Rotation(v, 0, 0) : v \in -k..k} \cup
    {Rotation(0, v, 0) : v \in IF n >= 2 THEN -k..k ELSE {0}} \cup
    {Rotation(0, 0, v) : v \in IF n >= 3 THEN -k..k ELSE {0}}

\* math.sqrt on a perfect square (the only arguments axis-aligned rotations produce)
Sqrt(n) == CHOOSE t \in 0..n : t * t = n

\* Rotation.turns
turns(r) == Sqrt(r.x * r.x + r.y * r.y + r.z * r.z)

\* Rotation.axis: the threshold 1e-7 separates 0 from every other multiple of 0.25
axis(r) ==
    LET length == turns(r)
    IN  IF length = 0
        THEN <<0, 0, 0>>
        ELSE <<r.x \div length, r.y \div length, r.z \div length>>

\* __canonical without the axis flip
canonical_no_flip(r) ==
    LET a  == axis(r)
        t2 == turns(r) % FullTurn
    IN  IF t2 = 0
        THEN <<0, 0, 0, 0>>
        ELSE IF t2 >= HalfTurn
             THEN <<t2 - FullTurn, a[1], a[2], a[3]>>
             ELSE <<t2, a[1], a[2], a[3]>>

\* __canonical with t > 0.5 in place of t >= 0.5
canonical_strict(r) ==
    LET a  == axis(r)
        t0 == turns(r)
        s1 == a[1]
        s2 == IF s1 = 0 THEN a[2] ELSE s1
        s  == IF s2 = 0 THEN a[3] ELSE s2
        t1 == IF s < 0 THEN -t0 ELSE t0
        x  == IF s < 0 THEN -a[1] ELSE a[1]
        y  == IF s < 0 THEN -a[2] ELSE a[2]
        z  == IF s < 0 THEN -a[3] ELSE a[3]
        t2 == t1 % FullTurn
    IN  IF t2 = 0
        THEN <<0, 0, 0, 0>>
        ELSE IF t2 > HalfTurn
             THEN <<t2 - FullTurn, x, y, z>>
             ELSE <<t2, x, y, z>>

\* __canonical that drops the sign of t
canonical_unsigned(r) ==
    LET a  == axis(r)
        t0 == turns(r)
        s1 == a[1]
        s2 == IF s1 = 0 THEN a[2] ELSE s1
        s  == IF s2 = 0 THEN a[3] ELSE s2
        t1 == IF s < 0 THEN -t0 ELSE t0
        x  == IF s < 0 THEN -a[1] ELSE a[1]
        y  == IF s < 0 THEN -a[2] ELSE a[2]
        z  == IF s < 0 THEN -a[3] ELSE a[3]
        t2 == t1 % FullTurn
    IN  IF t2 = 0
        THEN <<0, 0, 0, 0>>
        ELSE IF t2 >= HalfTurn
             THEN <<FullTurn - t2, x, y, z>>
             ELSE <<t2, x, y, z>>

\* Rotation.__canonical
canonical(r) ==
    LET a  == axis(r)
        t0 == turns(r)
        s1 == a[1]
        s2 == IF s1 = 0 THEN a[2] ELSE s1
        s  == IF s2 = 0 THEN a[3] ELSE s2
        t1 == IF s < 0 THEN -t0 ELSE t0
        x  == IF s < 0 THEN -a[1] ELSE a[1]
        y  == IF s < 0 THEN -a[2] ELSE a[2]
        z  == IF s < 0 THEN -a[3] ELSE a[3]
        t2 == t1 % FullTurn
    IN  IF t2 = 0
        THEN <<0, 0, 0, 0>>
        ELSE IF t2 >= HalfTurn
             THEN <<t2 - FullTurn, x, y, z>>
             ELSE <<t2, x, y, z>>

\* Rotation.__eq__
Eq(a, b) == canonical(a) = canonical(b)

\* __neg__ that leaves z as it is
neg_keeps_z(r) == Rotation(-r.x, -r.y, r.z)

\* Rotation.__neg__
Neg(r) == Rotation(-r.x, -r.y, -r.z)

(***************************************************************************)
(* Exact arithmetic for the quaternions of quarter-turn rotations.  Every  *)
(* component of such a quaternion is (a + b*sqrt(2))/2 for integers a, b   *)
(* and is stored as the pair <<a, b>>: 1 is <<2, 0>>, sqrt(2)/2 is         *)
(* <<0, 1>>, 1/2 is <<1, 0>>.                                              *)
(***************************************************************************)
NumZero == <<0, 0>>
NumOne == <<2, 0>>
NumNeg(p) == <<-p[1], -p[2]>>
\* integer multiple of a number
NumScale(p, m) == <<m * p[1], m * p[2]>>
\* the product of two numbers, in quarters: (a + b*sqrt(2))/4
NumMul4(p, q) == <<p[1] * q[1] + 2 * p[2] * q[2], p[1] * q[2] + p[2] * q[1]>>
NumAdd(p, q) == <<p[1] + q[1], p[2] + q[2]>>
\* from quarters back to halves
NumHalve(p) == <<p[1] \div 2, p[2] \div 2>>

\* trig_tau.cos of e eighths of a turn
cos(e) ==
    LET k == e % 8
    IN  IF k = 0 THEN <<2, 0>>
        ELSE IF k = 1 \/ k = 7 THEN <<0, 1>>
        ELSE IF k = 2 \/ k = 6 THEN <<0, 0>>
        ELSE IF k = 3 \/ k = 5 THEN <<0, -1>>
        ELSE <<-2, 0>>

\* trig_tau.sin of e eighths of a turn
sin(e) == cos(e - 2)

\* trig_tau.atan2(y, x) in eighths of a turn, for (x, y) on the unit circle
atan2(y, x) == CHOOSE e \in -3..4 : cos(e) = x /\ sin(e) = y

\* Quaternion(w, x, y, z)
Quaternion(w, x, y, z) == [w |-> w, x |-> x, y |-> y, z |-> z]

\* Quaternion.__mul__: the Hamilton product.  rat and irr are the two parts
\* of a product of components, in quarters; each sum is brought back to halves
QMul(p, q) ==
    LET rat(u, v) == u[1] * v[1] + 2 * u[2] * v[2]
        irr(u, v) == u[1] * v[2] + u[2] * v[1]
    IN  Quaternion(
            <<(rat(p.w, q.w) - rat(p.x, q.x) - rat(p.y, q.y) - rat(p.z, q.z)) \div 2,
              (irr(p.w, q.w) - irr(p.x, q.x) - irr(p.y, q.y) - irr(p.z, q.z)) \div 2>>,
            <<(rat(p.w, q.x) + rat(p.x, q.w) + rat(p.y, q.z) - rat(p.z, q.y)) \div 2,
              (irr(p.w, q.x) + irr(p.x, q.w) + irr(p.y, q.z) - irr(p.z, q.y)) \div 2>>,
            <<(rat(p.w, q.y) - rat(p.x, q.z) + rat(p.y, q.w) + rat(p.z, q.x)) \div 2,
              (irr(p.w, q.y) - irr(p.x, q.z) + irr(p.y, q.w) + irr(p.z, q.x)) \div 2>>,
            <<(rat(p.w, q.z) + rat(p.x, q.y) - rat(p.y, q.x) + rat(p.z, q.w)) \div 2,
              (irr(p.w, q.z) + irr(p.x, q.y) - irr(p.y, q.x) + irr(p.z, q.w)) \div 2>>)

\* Rotation.as_quaternion: t/2 turns is t eighths of a turn when t counts
\* quarter turns; s * v[i] = sin(t/2) * (v[i] / t), and v[i] / t is -1, 0 or 1
as_quaternion(r) ==
    LET t == turns(r)
    IN  IF t = 0
        THEN Quaternion(NumOne, NumZero, NumZero, NumZero)
        ELSE Quaternion(cos(t), NumScale(sin(t), r.x \div t),
                        NumScale(sin(t), r.y \div t), NumScale(sin(t), r.z \div t))

(***************************************************************************)
(* Fixed-point values for smooth_near_quarter_turn: one unit is 1e-7 turn  *)
(***************************************************************************)
\* the literal 0.25 of smooth_near_quarter_turn
Quarter == 2500000
\* the literal 0.125 of smooth_near_quarter_turn
Eighth == 1250000
\* the literal 0.000001 of smooth_near_quarter_turn
Tolerance == 10

\* smooth_near_quarter_turn with err = turns % 0.25
smooth_uncentred(v, rounded_below) ==
    LET err == v % Quarter
    IN  IF Abs(err) < Tolerance \/ (Abs(err) = Tolerance /\ rounded_below)
        THEN ((v + Eighth) \div Quarter) * Quarter
        ELSE v

\* smooth_near_quarter_turn; round(turns*4)/4 is the multiple of 0.25 nearest
\* to turns (no tie is within Tolerance of a multiple).  The decimals at a
\* distance of exactly 0.000001 from a multiple, and 0.000001 itself, are not
\* binary floats: rounded_below says whether the float err comes out below
\* the float 0.000001 for such a value (it does for 0.250001, not for 0.249999)
smooth_near_quarter_turn(v, rounded_below) ==
    LET err == ((v - Eighth) % Quarter) - Eighth
    IN  IF Abs(err) < Tolerance \/ (Abs(err) = Tolerance /\ rounded_below)
        THEN ((v + Eighth) \div Quarter) * Quarter
        ELSE v

\* smooth_near_quarter_turn on a count of quarter turns (err is 0)
Smoothed(k) == smooth_near_quarter_turn(k * Quarter, FALSE) \div Quarter

\* math.sqrt of a number that is the square of 0, 1/2, sqrt(2)/2 or 1
NumSqrt(p) ==
    CHOOSE n \in {<<0, 0>>, <<1, 0>>, <<0, 1>>, <<2, 0>>} : NumHalve(NumMul4(n, n)) = p

\* Rotation.from_quaternion for a unit quaternion about a basis axis: the set
\* of rotations the call can return.  With t the smoothed turn count,
\* d = sinc(t/2)/2 = sin(t/2)/t, so q.x/d = (q.x / sin(t/2)) * t, and q.x is
\* -sin(t/2), 0 or sin(t/2).  For q = -1 (t a full turn) d is sin of half a
\* turn: the components are 0/0 in exact arithmetic and the quotient of two
\* rounding errors in floating point, so any rotation can come out.
from_quaternion(q) ==
    LET norm == NumSqrt(NumHalve(NumAdd(NumAdd(NumMul4(q.x, q.x), NumMul4(q.y, q.y)),
                                        NumMul4(q.z, q.z))))
        t    == Smoothed(atan2(norm, q.w))
        comp(c) == IF c = NumZero
                   THEN 0
                   ELSE Smoothed(t * (CHOOSE m \in {-1, 1} : NumScale(sin(t), m) = c))
    IN  IF t # 0 /\ sin(t) = NumZero
        THEN AxisAligned(FullTurn, 3)
        ELSE {Rotation(comp(q.x), comp(q.y), comp(q.z))}

\* Rotation.then: the set of rotations the call can return
then(self, following_rotation) ==
    from_quaternion(QMul(as_quaternion(following_rotation), as_quaternion(self)))

\* tuple.__hash__ of the interpreter: a multiply-accumulate fold over the
\* items (multiplier 1000003), here on 11 bits
tuple_hash(t) ==
    LET step(acc, item) == (((acc * 1000003) % 2048) + item) % 2048
    IN  step(step(step(step(0, t[1]), t[2]), t[3]), t[4])

\* Rotation.__hash__
hash(r) == tuple_hash(canonical(r))

\* prev_rotations[:-k]
DropLast(s, k) == SubSeq(s, 1, Len(s) - k)

\* plus_rotation_simplified with next in place of -next in the three-quarter-turn rule
plus_keep_sign(prev, next) ==
    LET n == Len(prev)
    IN  IF n >= 1 /\ Eq(next, Neg(prev[n]))
        THEN [ret |-> DropLast(prev, 1), prev_rotations |-> prev]
        ELSE IF /\ n >= 2
                /\ turns(next) = QuarterTurn
                /\ Eq(next, prev[n])
                /\ Eq(next, prev[n - 1])
             THEN [ret |-> DropLast(prev, 2) \o <<next>>, prev_rotations |-> prev]
             ELSE [ret |-> prev \o <<next>>, prev_rotations |-> prev]

\* plus_rotation_simplified with prev_rotations[:-2] in the cancellation rule
plus_cancel_two(prev, next) ==
    LET n == Len(prev)
    IN  IF n >= 1 /\ Eq(next, Neg(prev[n]))
        THEN [ret |-> DropLast(prev, 2), prev_rotations |-> prev]
        ELSE IF /\ n >= 2
                /\ turns(next) = QuarterTurn
                /\ Eq(next, prev[n])
                /\ Eq(next, prev[n - 1])
             THEN [ret |-> DropLast(prev, 2) \o <<Neg(next)>>, prev_rotations |-> prev]
             ELSE [ret |-> prev \o <<next>>, prev_rotations |-> prev]

\* plus_rotation_simplified with prev_rotations[:-1] in the three-quarter-turn rule
plus_three_keep_one(prev, next) ==
    LET n == Len(prev)
    IN  IF n >= 1 /\ Eq(next, Neg(prev[n]))
        THEN [ret |-> DropLast(prev, 1), prev_rotations |-> prev]
        ELSE IF /\ n >= 2
                /\ turns(next) = QuarterTurn
                /\ Eq(next, prev[n])
                /\ Eq(next, prev[n - 1])
             THEN [ret |-> DropLast(prev, 1) \o <<Neg(next)>>, prev_rotations |-> prev]
             ELSE [ret |-> prev \o <<next>>, prev_rotations |-> prev]

\* plus_rotation_simplified without the test next_rotation.turns() == 0.25
plus_any_magnitude(prev, next) ==
    LET n == Len(prev)
    IN  IF n >= 1 /\ Eq(next, Neg(prev[n]))
        THEN [ret |-> DropLast(prev, 1), prev_rotations |-> prev]
        ELSE IF /\ n >= 2
                /\ TRUE
                /\ Eq(next, prev[n])
                /\ Eq(next, prev[n - 1])
             THEN [ret |-> DropLast(prev, 2) \o <<Neg(next)>>, prev_rotations |-> prev]
             ELSE [ret |-> prev \o <<next>>, prev_rotations |-> prev]

\* plus_rotation_simplified with prev_rotations.pop() in the cancellation rule
plus_in_place(prev, next) ==
    LET n == Len(prev)
    IN  IF n >= 1 /\ Eq(next, Neg(prev[n]))
        THEN [ret |-> DropLast(prev, 1), prev_rotations |-> DropLast(prev, 1)]
        ELSE IF /\ n >= 2
                /\ turns(next) = QuarterTurn
                /\ Eq(next, prev[n])
                /\ Eq(next, prev[n - 1])
             THEN [ret |-> DropLast(prev, 2) \o <<Neg(next)>>, prev_rotations |-> prev]
             ELSE [ret |-> prev \o <<next>>, prev_rotations |-> prev]

\* plus_rotation_simplified comparing raw components in the cancellation rule
plus_raw_cancel(prev, next) ==
    LET n == Len(prev)
    IN  IF n >= 1 /\ next = Neg(prev[n])
        THEN [ret |-> DropLast(prev, 1), prev_rotations |-> prev]
        ELSE IF /\ n >= 2
                /\ turns(next) = QuarterTurn
                /\ Eq(next, prev[n])
                /\ Eq(next, prev[n - 1])
             THEN [ret |-> DropLast(prev, 2) \o <<Neg(next)>>, prev_rotations |-> prev]
             ELSE [ret |-> prev \o <<next>>, prev_rotations |-> prev]

\* plus_rotation_simplified without the three-quarter-turn rule
plus_no_three_quarter(prev, next) ==
    LET n == Len(prev)
    IN  IF n >= 1 /\ Eq(next, Neg(prev[n]))
        THEN [ret |-> DropLast(prev, 1), prev_rotations |-> prev]
        ELSE [ret |-> prev \o <<next>>, prev_rotations |-> prev]

\* Rotation.plus_rotation_simplified: the returned list (ret) and the state
\* of the argument list once the call has returned (prev_rotations)
plus_rotation_simplified(prev, next) ==
    LET n == Len(prev)
    IN  IF n >= 1 /\ Eq(next, Neg(prev[n]))
        THEN [ret |-> DropLast(prev, 1), prev_rotations |-> prev]
        ELSE IF /\ n >= 2
                /\ turns(next) = QuarterTurn
                /\ Eq(next, prev[n])
                /\ Eq(next, prev[n - 1])
             THEN [ret |-> DropLast(prev, 2) \o <<Neg(next)>>, prev_rotations |-> prev]
             ELSE [ret |-> prev \o <<next>>, prev_rotations |-> prev]


\* the quaternion of applying the rotations of s in list order, composed as
\* Rotation.then composes: following.as_quaternion() * self.as_quaternion()
RECURSIVE NetQuaternion(_)
NetQuaternion(s) ==
    IF s = <<>>
    THEN as_quaternion(NoRotation)
    ELSE QMul(as_quaternion(s[Len(s)]), NetQuaternion(DropLast(s, 1)))

(***************************************************************************)
(* Inputs                                                                  *)
(***************************************************************************)
Inputs == AxisAligned(MaxK, NumAxes)

\* inputs of raw magnitude exactly 0.25
QuarterInputs == {r \in Inputs : turns(r) = QuarterTurn}

\* an aliased quarter turn: canonically a quarter turn, of raw magnitude
\* other than 0.25 (0.75, 1.25, ...)
AliasedQuarter(r) == Abs(canonical(r)[1]) = QuarterTurn /\ turns(r) # QuarterTurn

\* operands of the algebraic operations
Operands == AxisAligned(MaxTurn, 3)

\* pairs of operands about a common axis
SameAxisPairs ==
    {p \in Operands \X Operands :
        \/ p[1] = NoRotation
        \/ p[2] = NoRotation
        \/ axis(p[1]) = axis(p[2])
        \/ axis(p[1]) = axis(Neg(p[2]))}

\* every list of at most n elements of S
RECURSIVE ListsUpTo(_, _)
ListsUpTo(n, S) ==
    IF n = 0
    THEN {<<>>}
    ELSE LET shorter == ListsUpTo(n - 1, S)
         IN  shorter \cup {s \o <<r>> : s \in {l \in shorter : Len(l) = n - 1}, r \in S}

\* raw quarter turns in the positive sense
PrefixInputs == {r \in QuarterInputs : r.x + r.y + r.z = QuarterTurn}

\* the lists given to a single call: up to MaxPrefix quarter turns, which the
\* call does not read, then up to LookBack inputs of any kind
AnyLists ==
    {p \o t : p \in ListsUpTo(MaxPrefix, PrefixInputs), t \in ListsUpTo(LookBack, Inputs)}

\* arguments of smooth_near_quarter_turn: the values near the multiples of
\* 0.25 and near the points halfway between them
SmoothInputs ==
    {m * Quarter + h * Eighth + d :
        m \in -MaxMultiple..MaxMultiple, h \in {0, 1}, d \in -MaxOffset..MaxOffset}

(***************************************************************************)
(* State machine                                                           *)
(*   prev_rotations  the list of rotations the caller holds: after a call  *)
(*                   of plus_rotation_simplified, the list it returned     *)
(*   call            the last operation and its arguments; for             *)
(*                   plus_rotation_simplified also the argument list as it *)
(*                   is after the call, otherwise the value returned       *)
(*   rawNet          the quaternion of every rotation fed so far, applied  *)
(*                   in order (history variable)                           *)
(*   aliased         whether an aliased quarter turn was ever fed          *)
(*                   (history variable)                                    *)
(***************************************************************************)
Init ==
    /\ prev_rotations = <<>>
    /\ call = [op |-> "none"]
    /\ rawNet = as_quaternion(NoRotation)
    /\ aliased = FALSE

\* the caller starts from an arbitrary list: plus_rotation_simplified is a
\* static function of (prev_rotations, next_rotation)
InitAny ==
    /\ prev_rotations \in AnyLists
    /\ call = [op |-> "none"]
    /\ rawNet = NetQuaternion(prev_rotations)
    /\ aliased = \E i \in 1..Len(prev_rotations) : AliasedQuarter(prev_rotations[i])

\* prev = Rotation.plus_rotation_simplified(prev, next), lists capped at bound
ApplyPlus(next, bound) ==
    LET r == plus_rotation_simplified(prev_rotations, next)
    IN  /\ Len(r.ret) <= bound
        /\ prev_rotations' = r.ret
        /\ call' = [op |-> "plus", prev |-> prev_rotations, next |-> next,
                    after |-> r.prev_rotations]
        /\ rawNet' = QMul(as_quaternion(next), rawNet)
        /\ aliased' = (aliased \/ AliasedQuarter(next))

\* the caller feeds one more rotation
Feed(next) == ApplyPlus(next, MaxLen)

\* the caller feeds one more raw quarter turn
FeedQuarter(next) == ApplyPlus(next, MaxLenQ)

\* one call on the list the caller starts with
Call(next) == call.op = "none" /\ ApplyPlus(next, MaxPrefix + LookBack + 1)

\* a == b, with both hashes
Compare(a, b) ==
    /\ call.op = "none"
    /\ call' = [op |-> "eq", a |-> a, b |-> b, ret |-> Eq(a, b),
                hash_a |-> hash(a), hash_b |-> hash(b)]
    /\ UNCHANGED <<prev_rotations, rawNet, aliased>>

\* r.__canonical()
Canonicalize(r) ==
    /\ call.op = "none"
    /\ call' = [op |-> "canonical", r |-> r, ret |-> canonical(r)]
    /\ UNCHANGED <<prev_rotations, rawNet, aliased>>

\* a.then(b)
Compose(a, b) ==
    /\ call.op = "none"
    /\ \E ret \in then(a, b) :
           call' = [op |-> "then", a |-> a, b |-> b, ret |-> ret]
    /\ UNCHANGED <<prev_rotations, rawNet, aliased>>

\* smooth_near_quarter_turn(v), and the same call on its result
Smooth(v, rounded_below) ==
    LET ret == smooth_near_quarter_turn(v, rounded_below)
    IN  /\ call.op = "none"
        /\ call' = [op |-> "smooth", v |-> v, ret |-> ret,
                    again |-> smooth_near_quarter_turn(ret, rounded_below)]
        /\ UNCHANGED <<prev_rotations, rawNet, aliased>>

Next == \E next \in Inputs : Feed(next)

NextSmooth == \E v \in SmoothInputs, rounded_below \in BOOLEAN : Smooth(v, rounded_below)

NextAny == \E next \in Inputs : Call(next)

NextQuarter == \E next \in QuarterInputs : FeedQuarter(next)

NextAlg ==
    \/ \E a, b \in Operands : Compare(a, b)
    \/ \E r \in Operands : Canonicalize(r)
    \/ \E p \in SameAxisPairs : Compose(p[1], p[2])

\* feeding rotations one at a time, starting from the empty list
Spec == Init /\ [][Next]_vars

\* one call of plus_rotation_simplified on any list
SpecAny == InitAny /\ [][NextAny]_vars

\* feeding raw quarter turns only
SpecQuarter == Init /\ [][NextQuarter]_vars

\* one call of ==, hash, __canonical or then on any operands
SpecAlg == Init /\ [][NextAlg]_vars

\* one call of smooth_near_quarter_turn on any value of the grid
SpecSmooth == Init /\ [][NextSmooth]_vars

(***************************************************************************)
(* Properties                                                              *)
(***************************************************************************)
\* the last call was plus_rotation_simplified
IsPlus == call.op = "plus"

\* the condition of the cancellation rule
CancelCond(prev, next) ==
    Len(prev) >= 1 /\ Eq(next, Neg(prev[Len(prev)]))

\* the condition of the three-quarter-turn rule
ThreeQuarterCond(prev, next) ==
    /\ ~CancelCond(prev, next)
    /\ Len(prev) >= 2
    /\ turns(next) = QuarterTurn
    /\ Eq(next, prev[Len(prev)])
    /\ Eq(next, prev[Len(prev) - 1])

\* q and -q are the same physical rotation
QNeg(q) == Quaternion(NumNeg(q.w), NumNeg(q.x), NumNeg(q.y), NumNeg(q.z))
SameRotation(p, q) == p = q \/ p = QNeg(q)

\* no element of s is canonically equal to the negation of the element before it
NoAdjacentCancel(s) == \A i \in 2..Len(s) : ~Eq(s[i], Neg(s[i - 1]))

\* no three consecutive elements of s are canonically equal
NoTriple(s) == \A i \in 3..Len(s) : ~(Eq(s[i], s[i - 1]) /\ Eq(s[i], s[i - 2]))

\* C1: the rotations of the simplified list, applied in list order, give the
\* same physical rotation as every rotation fed so far applied in order (for
\* one call: as the rotations of prev applied in order and then next).
C1_NetRotationPreserved == SameRotation(NetQuaternion(prev_rotations), rawNet)

\* a call rewrote a list whose elements turn about two different axes
C1_Witness ==
    /\ IsPlus
    /\ Len(call.prev) = 3
    /\ ThreeQuarterCond(call.prev, call.next)
    /\ call.prev[1] # NoRotation
    /\ axis(call.prev[1]) # axis(call.next)
    /\ axis(call.prev[1]) # axis(Neg(call.next))

\* C2: when prev is non-empty and next is canonically equal to the negation
\* of its last element, the result is prev without its last element.
C2_Cancellation ==
    (IsPlus /\ CancelCond(call.prev, call.next))
        => prev_rotations = DropLast(call.prev, 1)

\* a cancellation seen only through canonical equality, on a list of 3
C2_Witness ==
    /\ IsPlus
    /\ Len(call.prev) = 3
    /\ CancelCond(call.prev, call.next)
    /\ call.next # Neg(call.prev[3])
    /\ prev_rotations = <<call.prev[1], call.prev[2]>>

\* C3: when the cancellation rule does not apply, prev has at least 2
\* elements, next.turns() is 0.25 and next is canonically equal to the last
\* two elements of prev, the result is prev without its last two elements
\* followed by -next, which is canonically a 0.75 turn about the axis of next.
C3_ThreeQuarterTurn ==
    (IsPlus /\ ThreeQuarterCond(call.prev, call.next))
        => /\ prev_rotations = DropLast(call.prev, 2) \o <<Neg(call.next)>>
           /\ Eq(prev_rotations[Len(prev_rotations)],
                 Rotation(3 * call.next.x, 3 * call.next.y, 3 * call.next.z))

\* the three-quarter-turn rule fired on a list of 3
C3_Witness ==
    /\ IsPlus
    /\ Len(call.prev) = 3
    /\ ThreeQuarterCond(call.prev, call.next)
    /\ prev_rotations = <<call.prev[1], Neg(call.next)>>

\* C4: when neither rule applies, the result is prev followed by next, with
\* the raw components of next unchanged.
C4_Default ==
    (IsPlus /\ ~CancelCond(call.prev, call.next) /\ ~ThreeQuarterCond(call.prev, call.next))
        => prev_rotations = call.prev \o <<call.next>>

\* three canonically equal rotations, next of raw magnitude 0.75: appended
C4_Witness ==
    /\ IsPlus
    /\ Len(call.prev) >= 2
    /\ turns(call.next) = 3 * QuarterTurn
    /\ Eq(call.next, call.prev[Len(call.prev)])
    /\ Eq(call.next, call.prev[Len(call.prev) - 1])
    /\ prev_rotations = call.prev \o <<call.next>>

\* the nonzero component of an axis-aligned rotation, in quarter turns
Amount(r) == r.x + r.y + r.z
\* a whole number of turns
WholeTurns(r) == Amount(r) % FullTurn = 0
\* the basis axis an axis-aligned rotation turns about (0: none)
AxisIndex(r) == IF r.x # 0 THEN 1 ELSE IF r.y # 0 THEN 2 ELSE IF r.z # 0 THEN 3 ELSE 0
\* the same physical rotation: both whole turns, or the same axis and signed
\* amounts congruent modulo one turn
SamePhysical(a, b) ==
    \/ WholeTurns(a) /\ WholeTurns(b)
    \/ AxisIndex(a) = AxisIndex(b) /\ (Amount(a) - Amount(b)) % FullTurn = 0

\* C5: a == b exactly when a and b are the same physical rotation, and equal
\* rotations have equal hashes.
C5_EqualityRespectsAliasing ==
    call.op = "eq"
        => /\ call.ret = SamePhysical(call.a, call.b)
           /\ call.ret => call.hash_a = call.hash_b

\* two different raw vectors about the same axis compared equal: 0.25 and -0.75
C5_Witness ==
    /\ call.op = "eq"
    /\ call.ret
    /\ Amount(call.a) = QuarterTurn
    /\ Amount(call.b) = QuarterTurn - FullTurn
    /\ call.hash_a = call.hash_b

\* C6 as stated: the turn component of the canonical tuple lies in
\* (-0.5, 0.5], a half turn is canonicalized to +0.5, and the tuple is
\* (0, 0, 0, 0) when the turn count modulo 1 is 0.
C6_HalfOpenAbove ==
    call.op = "canonical"
        => /\ -HalfTurn < call.ret[1] /\ call.ret[1] <= HalfTurn
           /\ turns(call.r) % FullTurn = HalfTurn => call.ret[1] = HalfTurn
           /\ turns(call.r) % FullTurn = 0 => call.ret = <<0, 0, 0, 0>>

\* C6 amended: the turn component of the canonical tuple lies in
\* [-0.5, 0.5), a half turn is canonicalized to -0.5, and the tuple is
\* (0, 0, 0, 0) when the turn count modulo 1 is 0.
C6_HalfOpenBelow ==
    call.op = "canonical"
        => /\ -HalfTurn <= call.ret[1] /\ call.ret[1] < HalfTurn
           /\ turns(call.r) % FullTurn = HalfTurn => call.ret[1] = -HalfTurn
           /\ turns(call.r) % FullTurn = 0 => call.ret = <<0, 0, 0, 0>>

\* the canonical tuple of a half turn given with a positive component
C6_Witness ==
    /\ call.op = "canonical"
    /\ Amount(call.r) = HalfTurn
    /\ call.ret[1] = -HalfTurn

\* C7: r.then(-r) is canonically equal to Rotation().
C7_ThenNegIsNoRotation ==
    (call.op = "then" /\ call.b = Neg(call.a)) => Eq(call.ret, NoRotation)

\* a three-quarter turn followed by its negation
C7_Witness ==
    /\ call.op = "then"
    /\ call.b = Neg(call.a)
    /\ turns(call.a) = 3 * QuarterTurn
    /\ Eq(call.ret, NoRotation)

\* C8: the result agrees with prev on every position before the last two,
\* and on the second-to-last position unless the three-quarter-turn rule
\* fired; the list passed in is unchanged by the call.
C8_LocalAndFrame ==
    IsPlus
        => LET n == Len(call.prev)
           IN  /\ \A i \in 1..(n - 2) : prev_rotations[i] = call.prev[i]
               /\ (n >= 2 /\ ~ThreeQuarterCond(call.prev, call.next))
                      => prev_rotations[n - 1] = call.prev[n - 1]
               /\ call.after = call.prev

\* a rewrite of the last two elements of a list of 3 that kept the first
C8_Witness ==
    /\ IsPlus
    /\ Len(call.prev) = 3
    /\ ThreeQuarterCond(call.prev, call.next)
    /\ prev_rotations[1] = call.prev[1]
    /\ prev_rotations[2] # call.prev[2]
    /\ call.after = call.prev

\* C9 as stated: every list reachable from the empty list, whatever nonzero
\* multiples of a quarter turn are fed, is free of adjacent cancelling pairs.
C9_Irreducible == NoAdjacentCancel(prev_rotations)

\* C9 amended: every list reachable from the empty list is free of adjacent
\* cancelling pairs as long as every fed rotation that is canonically a
\* quarter turn has raw magnitude exactly 0.25.
C9_IrreducibleUnaliased == ~aliased => NoAdjacentCancel(prev_rotations)

\* half turns and quarter turns were fed, no aliased one, and a rule fired
C9_Witness ==
    /\ ~aliased
    /\ IsPlus
    /\ Len(call.prev) = 3
    /\ ThreeQuarterCond(call.prev, call.next)
    /\ turns(call.prev[1]) = HalfTurn

\* C10: when only raw quarter turns are fed, every reachable list holds only
\* raw quarter turns, no three consecutive canonically equal elements and no
\* element canonically equal to the negation of its predecessor.
C10_QuarterLists ==
    /\ \A i \in 1..Len(prev_rotations) : turns(prev_rotations[i]) = QuarterTurn
    /\ NoTriple(prev_rotations)
    /\ NoAdjacentCancel(prev_rotations)

\* the three-quarter-turn rule fired at the end of a list of raw quarter turns
C10_Witness ==
    /\ IsPlus
    /\ Len(call.prev) = MaxLenQ
    /\ ThreeQuarterCond(call.prev, call.next)
    /\ \A i \in 1..Len(prev_rotations) : turns(prev_rotations[i]) = QuarterTurn

\* the three tests of the second rule, without regard to the first
SecondRuleCond(prev, next) ==
    /\ Len(prev) >= 2
    /\ turns(next) = QuarterTurn
    /\ Eq(next, prev[Len(prev)])
    /\ Eq(next, prev[Len(prev) - 1])

\* the result of testing the three-quarter-turn rule before the cancellation rule
RulesSwapped(prev, next) ==
    IF SecondRuleCond(prev, next)
    THEN DropLast(prev, 2) \o <<Neg(next)>>
    ELSE IF CancelCond(prev, next)
         THEN DropLast(prev, 1)
         ELSE prev \o <<next>>

\* C11: the conditions of the two rules never hold together, so testing
\* them in the other order gives the same list, and a call makes the list
\* one longer (append) or one shorter (either rule).
C11_RulesExclusive ==
    IsPlus
        => /\ ~(CancelCond(call.prev, call.next) /\ SecondRuleCond(call.prev, call.next))
           /\ prev_rotations = RulesSwapped(call.prev, call.next)
           /\ Len(prev_rotations) =
                  IF CancelCond(call.prev, call.next) \/ SecondRuleCond(call.prev, call.next)
                  THEN Len(call.prev) - 1
                  ELSE Len(call.prev) + 1

\* a half turn after two half turns: equal to the last two elements and to
\* the negation of the last, and only the cancellation rule applies
C11_Witness ==
    /\ IsPlus
    /\ Len(call.prev) >= 2
    /\ turns(call.next) = HalfTurn
    /\ Eq(call.next, call.prev[Len(call.prev)])
    /\ Eq(call.next, call.prev[Len(call.prev) - 1])
    /\ CancelCond(call.prev, call.next)
    /\ ~SecondRuleCond(call.prev, call.next)
    /\ Len(prev_rotations) = Len(call.prev) - 1

\* the multiples of 0.25 around the arguments of smooth_near_quarter_turn
Multiples == {m * Quarter : m \in -(MaxMultiple + 1)..(MaxMultiple + 1)}
\* the distance from v to the nearest multiple of 0.25
Distance(v) ==
    CHOOSE d \in {Abs(v - q) : q \in Multiples} :
        \A q \in Multiples : Abs(v - q) >= d
\* a multiple of 0.25 nearest to v
Nearest(v) == CHOOSE q \in Multiples : Abs(v - q) = Distance(v)

====
